---- MODULE Spec2Model ----
(***************************************************************************)
(* Model of discovery-infra/junit_log_parser.py: the conversion of the     *)
(* assisted-service log files of a directory into one JUnit report.        *)
(*                                                                         *)
(* Text is modelled as a sequence of pieces, each piece a fixed character  *)
(* string: the pieces of a log line are the literals LOG_FORMAT is built   *)
(* from (time=, the double quote, the space, level=, ...), words that      *)
(* contain none of these, and the newline; the pieces of a file name are   *)
(* k8s_, assisted-service, words that contain neither, and suffixes.       *)
(* Concatenation of strings is concatenation of sequences.                 *)
(***************************************************************************)
EXTENDS Integers, Sequences, FiniteSets, TLC

VARIABLES pc, src, dst, pending, file, suite_name, read, fail_cases,
          suites, reports, raised, exitcode

vars == <<pc, src, dst, pending, file, suite_name, read, fail_cases,
          suites, reports, raised, exitcode>>

\* Bound of the model: the number of lines read from one log file.
MaxLines == 3

(***************************************************************************)
(* Python values                                                           *)
(***************************************************************************)
\* Optional[str]: None, or a string
None == [none |-> TRUE, str |-> <<>>]
Str(s) == [none |-> FALSE, str |-> s]

\* truthiness of an Optional[str]: None and "" are falsy
Truthy(o) == ~o.none /\ o.str # <<>>

Q == "\""
SP == " "
NL == "\n"

(***************************************************************************)
(* LOG_FORMAT and re.match                                                 *)
(***************************************************************************)
\* the literal parts of LOG_FORMAT, in order
LitTime == <<"time=", Q>>
LitLevel == <<Q, SP, "level=">>
LitMsg == <<SP, "msg=", Q>>
LitFunc == <<Q, SP, "func=">>
LitFile == <<SP, "file=", Q>>
LitEnd == <<Q, SP>>
LitError == <<"error=", Q>>

\* the literal lit occurs in line at position i
At(line, i, lit) ==
    /\ i >= 1
    /\ i + Len(lit) - 1 <= Len(line)
    /\ SubSeq(line, i, i + Len(lit) - 1) = lit

Occ(line, lit) == {i \in 1..Len(line) : At(line, i, lit)}

\* "." matches every character but the newline
Dots(line, i, j) == \A k \in i..j : line[k] # NL

\* The ways LOG_FORMAT matches at the start of line, the optional error
\* group left aside: <<a, b, c, d, e>> are the positions where the literals
\* LitLevel, LitMsg, LitFunc, LitFile and LitEnd are matched.
LogMatches(line) ==
    IF ~At(line, 1, LitTime) THEN {}
    ELSE {m \in Occ(line, LitLevel) \X Occ(line, LitMsg) \X Occ(line, LitFunc)
                \X Occ(line, LitFile) \X Occ(line, LitEnd) :
            /\ m[1] >= 3 /\ Dots(line, 3, m[1] - 1)
            /\ m[2] >= m[1] + 3 /\ Dots(line, m[1] + 3, m[2] - 1)
            /\ m[3] >= m[2] + 3 /\ Dots(line, m[2] + 3, m[3] - 1)
            /\ m[4] >= m[3] + 3 /\ Dots(line, m[3] + 3, m[4] - 1)
            /\ m[5] >= m[4] + 3 /\ Dots(line, m[4] + 3, m[5] - 1)}

\* The backtracking order: time and level are lazy (.*?), msg and func are
\* greedy (.*), file is lazy; m is tried before n.
Before(m, n) ==
    \/ m[1] < n[1]
    \/ m[1] = n[1] /\ m[2] < n[2]
    \/ m[1] = n[1] /\ m[2] = n[2] /\ m[3] > n[3]
    \/ m[1] = n[1] /\ m[2] = n[2] /\ m[3] = n[3] /\ m[4] > n[4]
    \/ m[1] = n[1] /\ m[2] = n[2] /\ m[3] = n[3] /\ m[4] = n[4] /\ m[5] <= n[5]

\* (error="(?P<error>.*)")? after the literal matched at e: the closing
\* quotes the greedy .* can stop at
ErrorEnds(line, e) ==
    IF ~At(line, e + 2, LitError) THEN {}
    ELSE {g \in (e + 4)..Len(line) : line[g] = Q /\ Dots(line, e + 4, g - 1)}

ErrorGroup(line, e) ==
    LET ends == ErrorEnds(line, e)
    IN  IF ends = {} THEN None
        ELSE LET g == CHOOSE x \in ends : \A y \in ends : y <= x
             IN  Str(SubSeq(line, e + 4, g - 1))

\* re.match(LOG_FORMAT, line) followed by LogEntry(**values.groupdict());
\* matched is FALSE when re.match returns None
MatchLine(line) ==
    LET ms == LogMatches(line)
    IN  IF ms = {} THEN [matched |-> FALSE]
        ELSE LET m == CHOOSE x \in ms : \A y \in ms : Before(x, y)
             IN  [matched |-> TRUE,
                  time |-> SubSeq(line, 3, m[1] - 1),
                  level |-> SubSeq(line, m[1] + 3, m[2] - 1),
                  msg |-> SubSeq(line, m[2] + 3, m[3] - 1),
                  func |-> SubSeq(line, m[3] + 3, m[4] - 1),
                  file |-> SubSeq(line, m[4] + 3, m[5] - 1),
                  error |-> ErrorGroup(line, m[5])]

EXPORTED_LOG_LEVELS == {<<"fatal">>, <<"error">>}

(***************************************************************************)
(* The input: log lines                                                    *)
(***************************************************************************)
\* A line in the input format
\*   time="<ts>" level=<lvl> msg="<text>" func=<name> file="<path>"
\* followed by tail and the end of the line.
FormatLine(time, level, msg, func, path, tail) ==
    <<"time=", Q>> \o time \o <<Q, SP, "level=">> \o level
        \o <<SP, "msg=", Q>> \o msg \o <<Q, SP, "func=">> \o func
        \o <<SP, "file=", Q>> \o path \o <<Q>> \o tail \o <<NL>>

\* tails: the error field, another field, nothing
ErrorField(e) == <<SP, "error=", Q>> \o e \o <<Q>>
OtherField == <<SP, "pkg=", Q, "host", Q>>
NoField == <<>>

Lines ==
    { FormatLine(<<"t1">>, <<"error">>, <<"boom">>, <<"Install">>, <<"a.go">>, ErrorField(<<"e1">>)),
      FormatLine(<<"t2">>, <<"fatal">>, <<"boom">>, <<"Install">>, <<"a.go">>, ErrorField(<<"e1">>)),
      FormatLine(<<"t2">>, <<"error">>, <<"boom">>, <<"Install">>, <<"a.go">>, OtherField),
      FormatLine(<<"t1">>, <<"fatal">>, <<"boom">>, <<"Install">>, <<"a.go">>, ErrorField(<<>>)),
      FormatLine(<<"t1">>, <<"fatal">>, <<"boom">>, <<"Install">>, <<"a.go">>, NoField),
      FormatLine(<<"t2">>, <<"error">>, <<"boom">>, <<"Register">>, <<"b.go">>, ErrorField(<<"e1">>)),
      FormatLine(<<"t1">>, <<"info">>, <<"boom">>, <<"Update">>, <<"b.go">>, ErrorField(<<"e1">>)),
      <<"panic:", SP, "boom", NL>> }

\* re.match on the lines of the input, computed once for each line
Matched == [line \in Lines |-> MatchLine(line)]

ReMatch(line) == Matched[line]

(***************************************************************************)
(* Cases and the fail_cases dictionary                                     *)
(***************************************************************************)
\* CaseFailure(message, output, type)
CaseFailure(message, output, type) ==
    [message |-> message, output |-> output, type |-> type]

\* junit_xml.TestCase(name, classname, category, timestamp), failures = []
TestCase(name, classname, category, timestamp) ==
    [name |-> name, classname |-> classname, category |-> category,
     timestamp |-> timestamp, failures |-> <<>>]

\* A Dict[str, List[TestCase]] is the sequence of its items, in insertion
\* order: each item is <<key, value>>.
DictKeys(d) == {d[i][1] : i \in 1..Len(d)}

\* d.get(k, [])
DictGet(d, k) ==
    IF k \in DictKeys(d)
    THEN d[CHOOSE i \in 1..Len(d) : d[i][1] = k][2]
    ELSE <<>>

\* d[k] = v moving an existing key to the end
DictSet_move_to_end(d, k, v) ==
    Append(SelectSeq(d, LAMBDA item : item[1] # k), <<k, v>>)

\* d[k] = v: an existing key keeps its place, a new key goes last
DictSet(d, k, v) ==
    IF k \in DictKeys(d)
    THEN [i \in 1..Len(d) |-> IF d[i][1] = k THEN <<k, v>> ELSE d[i]]
    ELSE Append(d, <<k, v>>)

\* [c for cases in d.values() for c in cases]
RECURSIVE FlattenValues(_)
FlattenValues(d) ==
    IF d = <<>> THEN <<>> ELSE d[1][2] \o FlattenValues(Tail(d))

\* f"{entry.msg}\n{entry.error if entry.error else ''}"
ComposedMessage(entry) ==
    entry.msg \o <<NL>> \o (IF Truthy(entry.error) THEN entry.error.str ELSE <<>>)

\* is_duplicate_entry looking at the last case of the func only
is_duplicate_entry_last(entry, entry_message, cases) ==
    LET cs == DictGet(cases, entry.func)
    IN  /\ cs # <<>>
        /\ cs[Len(cs)].failures # <<>>
        /\ cs[Len(cs)].failures[1].message = entry_message

\* is_duplicate_entry comparing the level as well as the message
is_duplicate_entry_level(entry, entry_message, cases) ==
    \E i \in 1..Len(DictGet(cases, entry.func)) :
        LET case == DictGet(cases, entry.func)[i]
        IN  /\ case.failures # <<>>
            /\ case.failures[1].message = entry_message
            /\ case.failures[1].type = entry.level

is_duplicate_entry(entry, entry_message, cases) ==
    \E i \in 1..Len(DictGet(cases, entry.func)) :
        LET case == DictGet(cases, entry.func)[i]
        IN  case.failures # <<>> /\ case.failures[1].message = entry_message

\* get_log_entry_case adding the flaky sibling whatever the level
get_log_entry_case_always(entry, cases, suite) ==
    LET message == ComposedMessage(entry)
        test_case == [TestCase(entry.func, suite, suite, Str(entry.time))
                        EXCEPT !.failures =
                            <<CaseFailure(message, message, entry.level)>>]
        flaky_test_case == TestCase(entry.func, suite, suite, None)
    IN  IF is_duplicate_entry(entry, message, cases) THEN <<>>
        ELSE <<test_case, flaky_test_case>>

\* get_log_entry_case with the level test inverted
get_log_entry_case_inverted(entry, cases, suite) ==
    LET message == ComposedMessage(entry)
        test_case == [TestCase(entry.func, suite, suite, Str(entry.time))
                        EXCEPT !.failures =
                            <<CaseFailure(message, message, entry.level)>>]
        flaky_test_case == TestCase(entry.func, suite, suite, None)
    IN  IF is_duplicate_entry(entry, message, cases) THEN <<>>
        ELSE IF entry.level = <<"fatal">> THEN <<test_case, flaky_test_case>>
        ELSE <<test_case>>

get_log_entry_case(entry, cases, suite) ==
    LET message == ComposedMessage(entry)
        test_case == [TestCase(entry.func, suite, suite, Str(entry.time))
                        EXCEPT !.failures =
                            <<CaseFailure(message, message, entry.level)>>]
        flaky_test_case == TestCase(entry.func, suite, suite, None)
    IN  IF is_duplicate_entry(entry, message, cases) THEN <<>>
        ELSE IF entry.level # <<"fatal">> THEN <<test_case, flaky_test_case>>
        ELSE <<test_case>>

\* the loop body creating the func key before the level is tested
ProcessLine_key_first(cases, line, suite) ==
    LET entry == ReMatch(line)
    IN  IF ~entry.matched THEN cases
        ELSE LET withKey == IF entry.func \in DictKeys(cases) THEN cases
                            ELSE DictSet(cases, entry.func, <<>>)
             IN  IF entry.level \notin EXPORTED_LOG_LEVELS THEN withKey
                 ELSE DictSet(withKey, entry.func,
                              DictGet(withKey, entry.func)
                                  \o get_log_entry_case(entry, withKey, suite))

\* the body of the loop of get_failure_cases for one line: the value of
\* fail_cases after it
ProcessLine(cases, line, suite) ==
    LET entry == ReMatch(line)
    IN  IF ~entry.matched THEN cases
        ELSE IF entry.level \notin EXPORTED_LOG_LEVELS THEN cases
        ELSE LET withKey == IF entry.func \in DictKeys(cases) THEN cases
                            ELSE DictSet(cases, entry.func, <<>>)
             IN  DictSet(withKey, entry.func,
                         DictGet(withKey, entry.func)
                             \o get_log_entry_case(entry, withKey, suite))

(***************************************************************************)
(* File names, the source directory and the destination                    *)
(***************************************************************************)
Suffixes == {".log", ".txt", ".tar"}

\* Path(file).stem: the name without its last suffix
Stem(name) ==
    IF Len(name) > 1 /\ name[Len(name)] \in Suffixes
    THEN SubSeq(name, 1, Len(name) - 1)
    ELSE name

\* str.replace(old, new): every occurrence of old, scanning from the left
RECURSIVE Replace(_, _, _)
Replace(s, old, new) ==
    IF s = <<>> THEN <<>>
    ELSE IF At(s, 1, old)
         THEN new \o Replace(SubSeq(s, Len(old) + 1, Len(s)), old, new)
         ELSE <<Head(s)>> \o Replace(Tail(s), old, new)

\* Path(file).stem.replace("k8s_", "")
SuiteName(name) == Replace(Stem(name), <<"k8s_">>, <<>>)

\* the name matches the pattern k8s_assisted-service*.log
GlobMatch(name) ==
    /\ Len(name) >= 3
    /\ SubSeq(name, 1, 2) = <<"k8s_", "assisted-service">>
    /\ name[Len(name)] = ".log"

RECURSIVE GlobSelect(_)
GlobSelect(entries) ==
    IF entries = <<>> THEN <<>>
    ELSE IF GlobMatch(Head(entries).name)
         THEN <<Head(entries)>> \o GlobSelect(Tail(entries))
         ELSE GlobSelect(Tail(entries))

\* source_dir.glob("k8s_assisted-service*.log"): the matching entries, in
\* the order the directory lists them; nothing for a directory that does
\* not exist
Glob(dir) == IF dir.exists THEN GlobSelect(dir.entries) ELSE <<>>

\* no file yet
NoFile == [name |-> <<>>, isdir |-> FALSE]

File(name) == [name |-> name, isdir |-> FALSE]
Dir(name) == [name |-> name, isdir |-> TRUE]

NameAbc == <<"k8s_", "assisted-service", "-abc", ".log">>
NameTwice == <<"k8s_", "assisted-service", "-", "k8s_", "node", ".log">>
NameTxt == <<"k8s_", "assisted-service", "-abc", ".txt">>
NameOther == <<"k8s_", "assisted-installer", ".log">>
NameInner == <<"old-", "k8s_", "assisted-service", ".log">>

\* the values of --src: the flag absent, a directory that does not exist,
\* and directories with their entries
NoSrc == [given |-> FALSE, exists |-> FALSE, entries |-> <<>>]
MissingDir == [given |-> TRUE, exists |-> FALSE, entries |-> <<>>]
Listing(entries) == [given |-> TRUE, exists |-> TRUE, entries |-> entries]

Sources ==
    { NoSrc, MissingDir, Listing(<<>>),
      Listing(<<File(NameAbc)>>),
      Listing(<<File(NameTxt), File(NameTwice), File(NameOther)>>),
      Listing(<<File(NameInner), File(NameAbc), File(NameTwice)>>),
      Listing(<<File(NameAbc), Dir(NameTwice)>>) }

\* the values of --dst: the flag absent, an existing directory, a path
\* that does not exist (its parent does), a path whose parent does not
\* exist, a regular file, a directory that cannot be written
Destinations == {"none", "dir", "absent", "noparent", "file", "readonly"}

(***************************************************************************)
(* main                                                                    *)
(***************************************************************************)
\* SuppressAndLog(BaseException): the exception classes the block swallows
BaseException ==
    {"TypeError", "FileNotFoundError", "FileExistsError",
     "IsADirectoryError", "PermissionError"}

SuppressAndLog(classes, exc) == exc \in classes

\* junit_xml.TestSuite(name, test_cases, timestamp)
TestSuite(name, test_cases, timestamp) ==
    [name |-> name, test_cases |-> test_cases, timestamp |-> timestamp]

Init ==
    /\ pc = "main"
    /\ src \in Sources
    /\ dst \in Destinations
    /\ pending = <<>>
    /\ file = NoFile
    /\ suite_name = <<>>
    /\ read = <<>>
    /\ fail_cases = <<>>
    /\ suites = <<>>
    /\ reports = <<>>
    /\ raised = "no"
    /\ exitcode = -1

\* an exception leaves main: the interpreter exits with status 1
Escapes(exc) ==
    /\ pc' = "done"
    /\ raised' = exc
    /\ exitcode' = 1

\* an exception is raised inside the with SuppressAndLog(BaseException)
\* block: the block is left, and main returns when it is swallowed
RaisedInBlock(exc) ==
    /\ pc' = "done"
    /\ raised' = exc
    /\ exitcode' = IF SuppressAndLog(BaseException, exc) THEN 0 ELSE 1

\* main up to the with block: parse_args, Path(args.dst), mkdir
Main ==
    /\ pc = "main"
    /\ IF dst = "none"                         \* Path(None)
       THEN Escapes("TypeError") /\ dst' = dst
       ELSE IF dst = "noparent"                \* mkdir, parents=False
       THEN Escapes("FileNotFoundError") /\ dst' = dst
       ELSE IF dst = "file"                    \* mkdir, exist_ok on a file
       THEN Escapes("FileExistsError") /\ dst' = dst
       ELSE /\ pc' = "export"
            /\ dst' = IF dst = "absent" THEN "dir" ELSE dst
            /\ UNCHANGED <<raised, exitcode>>
    /\ UNCHANGED <<src, pending, file, suite_name, read, fail_cases, suites, reports>>

\* Path(args.src) and the start of export_service_logs_to_junit_suites
Export ==
    /\ pc = "export"
    /\ IF ~src.given
       THEN RaisedInBlock("TypeError") /\ UNCHANGED <<pending, suites>>
       ELSE /\ suites' = <<>>
            /\ pending' = Glob(src)
            /\ pc' = "files"
            /\ UNCHANGED <<raised, exitcode>>
    /\ UNCHANGED <<src, dst, file, suite_name, read, fail_cases, reports>>

\* the next file of the glob: the suite name, and get_failure_cases up to
\* open(log_file_name)
NextFile ==
    /\ pc = "files"
    /\ pending # <<>>
    /\ file' = Head(pending)
    /\ pending' = Tail(pending)
    /\ suite_name' = SuiteName(Head(pending).name)
    /\ IF Head(pending).isdir
       THEN RaisedInBlock("IsADirectoryError") /\ UNCHANGED <<read, fail_cases>>
       ELSE /\ fail_cases' = <<>>
            /\ read' = <<>>
            /\ pc' = "lines"
            /\ UNCHANGED <<raised, exitcode>>
    /\ UNCHANGED <<src, dst, suites, reports>>

\* one iteration of the loop over the lines of the file
ReadLine(line) ==
    /\ pc = "lines"
    /\ Len(read) < MaxLines
    /\ read' = Append(read, line)
    /\ fail_cases' = ProcessLine(fail_cases, line, suite_name)
    /\ UNCHANGED <<pc, src, dst, pending, file, suite_name, suites, reports, raised, exitcode>>

\* the end of the file, a file without cases giving no suite
EndOfFile_skip_empty ==
    /\ pc = "lines"
    /\ LET test_cases == FlattenValues(fail_cases)
           timestamp == IF test_cases # <<>> THEN test_cases[1].timestamp ELSE None
       IN  suites' = IF test_cases = <<>> THEN suites
                     ELSE Append(suites, TestSuite(suite_name, test_cases, timestamp))
    /\ pc' = "files"
    /\ UNCHANGED <<src, dst, pending, file, suite_name, read, fail_cases, reports, raised, exitcode>>

\* the end of the file: get_failure_cases returns, the suite is appended
EndOfFile ==
    /\ pc = "lines"
    /\ LET test_cases == FlattenValues(fail_cases)
           timestamp == IF test_cases # <<>> THEN test_cases[1].timestamp ELSE None
       IN  suites' = Append(suites, TestSuite(suite_name, test_cases, timestamp))
    /\ pc' = "files"
    /\ UNCHANGED <<src, dst, pending, file, suite_name, read, fail_cases, reports, raised, exitcode>>

\* after the last file: the report is written to a new file of report_dir
WriteReport ==
    /\ pc = "files"
    /\ pending = <<>>
    /\ IF dst = "readonly"
       THEN RaisedInBlock("PermissionError") /\ reports' = reports
       ELSE /\ reports' = Append(reports, suites)
            /\ pc' = "done"
            /\ raised' = raised
            /\ exitcode' = 0
    /\ UNCHANGED <<src, dst, pending, file, suite_name, read, fail_cases, suites>>

Next ==
    \/ Main
    \/ Export
    \/ NextFile
    \/ \E line \in Lines : ReadLine(line)
    \/ EndOfFile
    \/ WriteReport

Spec == Init /\ [][Next]_vars

(***************************************************************************)
(* Properties                                                              *)
(***************************************************************************)
Exported == {<<"fatal">>, <<"error">>}

\* msg + "\n" + (error or "")
Message(e) == e.msg \o <<NL>> \o (IF e.error.none THEN <<>> ELSE e.error.str)

Failing(c) == c.failures # <<>>

\* the case list of func f in the dictionary d, empty when f is no key
CasesOf(d, f) ==
    IF \E i \in 1..Len(d) : d[i][1] = f
    THEN LET i == CHOOSE j \in 1..Len(d) : d[j][1] = f IN d[i][2]
    ELSE <<>>

\* a failing case with message m is already built for func f
AlreadyFailed(d, f, m) ==
    \E k \in 1..Len(CasesOf(d, f)) :
        /\ Failing(CasesOf(d, f)[k])
        /\ CasesOf(d, f)[k].failures[1].message = m

\* the line is an exported entry: it matches LOG_FORMAT with level fatal
\* or error
IsExported(line) == ReMatch(line).matched /\ ReMatch(line).level \in Exported

\* a step of the loop of get_failure_cases: one more line is read
LineStep == pc = "lines" /\ Len(read') = Len(read) + 1

\* C1: an exported entry whose func and composed message are those of a
\* failing case already built for that func adds no case: fail_cases is
\* left as it is.
C1_DuplicateAddsNoCase ==
    [][LineStep =>
        LET line == read'[Len(read')]
            e == ReMatch(line)
        IN  (IsExported(line) /\ AlreadyFailed(fail_cases, e.func, Message(e)))
                => fail_cases' = fail_cases]_vars

\* three exported lines with one func and one composed message have been
\* read, and the func has the cases of the first line only
C1_Witness ==
    /\ pc = "lines"
    /\ Len(read) = 3
    /\ \A i \in 1..3 :
        /\ IsExported(read[i])
        /\ ReMatch(read[i]).func = ReMatch(read[1]).func
        /\ Message(ReMatch(read[i])) = Message(ReMatch(read[1]))
    /\ Len(fail_cases) = 1
    /\ Len(fail_cases[1][2]) <= 2

\* C2: an exported entry that is no duplicate adds, to the cases of its
\* func, the failing case (name func, one failure with the composed message
\* as message and output and the level as type) followed, when the level is
\* error, by one case of the same name and suite without failure; a fatal
\* entry adds the failing case alone.
C2_CasesOfNewEntry ==
    [][LineStep =>
        LET line == read'[Len(read')]
            e == ReMatch(line)
            old == CasesOf(fail_cases, e.func)
            new == CasesOf(fail_cases', e.func)
            n == Len(old)
        IN  (IsExported(line) /\ ~AlreadyFailed(fail_cases, e.func, Message(e)))
                => /\ Len(new) = n + (IF e.level = <<"error">> THEN 2 ELSE 1)
                   /\ SubSeq(new, 1, n) = old
                   /\ new[n + 1].name = e.func
                   /\ new[n + 1].classname = suite_name
                   /\ new[n + 1].failures =
                        <<[message |-> Message(e), output |-> Message(e),
                           type |-> e.level]>>
                   /\ e.level = <<"error">> =>
                        /\ new[n + 2].name = e.func
                        /\ new[n + 2].classname = suite_name
                        /\ new[n + 2].failures = <<>>]_vars

\* an error entry and then a fatal entry of another message have been read:
\* the func has three cases
C2_Witness ==
    /\ pc = "lines"
    /\ Len(read) = 2
    /\ IsExported(read[1]) /\ ReMatch(read[1]).level = <<"error">>
    /\ IsExported(read[2]) /\ ReMatch(read[2]).level = <<"fatal">>
    /\ Len(fail_cases) = 1
    /\ Len(fail_cases[1][2]) = 3

\* C3: a line that does not match LOG_FORMAT, and a matching line whose
\* level is neither fatal nor error, raise nothing and leave fail_cases as
\* it is: no case and no func key is added.
C3_SkippedLineChangesNothing ==
    [][LineStep =>
        LET line == read'[Len(read')]
        IN  ~IsExported(line)
                => /\ fail_cases' = fail_cases
                   /\ raised' = "no"
                   /\ pc' = "lines"]_vars

\* a line that does not match and a matching line of level info have been
\* read, and nothing is collected
C3_Witness ==
    /\ pc = "lines"
    /\ \E i, j \in 1..Len(read) :
        /\ ~ReMatch(read[i]).matched
        /\ ReMatch(read[j]).matched
        /\ ReMatch(read[j]).level = <<"info">>
    /\ fail_cases = <<>>

\* C4: main always ends with exit status 0, whatever --src and --dst are.
C4_MainAlwaysExitsZero == pc = "done" => exitcode = 0

\* the lines of the input format without error field that end right after
\* the closing quote of file="..."
NoErrorLine(time, level, func) ==
    FormatLine(time, level, <<"boom">>, func, <<"a.go">>, NoField)

\* C5: a line of the input format without error field is matched with the
\* error unset, and a fatal one gives a failing case named after func whose
\* message is msg followed by a newline.
C5_LineWithoutErrorField ==
    \A i \in 1..Len(read) :
        \A time \in {<<"t1">>, <<"t2">>}, level \in {<<"fatal">>, <<"error">>},
           func \in {<<"Install">>, <<"Register">>} :
            read[i] = NoErrorLine(time, level, func)
                => /\ ReMatch(read[i]).matched
                   /\ ReMatch(read[i]).error = None
                   /\ level = <<"fatal">> =>
                        \E k \in 1..Len(CasesOf(fail_cases, func)) :
                            /\ Failing(CasesOf(fail_cases, func)[k])
                            /\ CasesOf(fail_cases, func)[k].failures[1].message
                                 = <<"boom", NL>>

\* C6: the suite name is the base name of the file without its extension
\* and without the leading k8s_; a later k8s_ is kept.
C6_OnlyLeadingPrefixRemoved ==
    pc = "lines" =>
        /\ Head(Stem(file.name)) = "k8s_"
        /\ suite_name = Tail(Stem(file.name))

\* the entries of the source directory that match the pattern
RECURSIVE MatchingFiles(_)
MatchingFiles(entries) ==
    IF entries = <<>> THEN <<>>
    ELSE (IF GlobMatch(Head(entries).name) THEN <<Head(entries)>> ELSE <<>>)
            \o MatchingFiles(Tail(entries))

\* C7: without exception, exactly one report is written and it holds one
\* suite for each matching file of the source directory, in order, also
\* for a file without fatal or error line; with an empty or missing source
\* directory (and a destination that can be written) a report without
\* suites is written and nothing is raised.
C7_OneReportOneSuitePerFile ==
    /\ (pc = "done" /\ raised = "no") =>
        /\ Len(reports) = 1
        /\ Len(reports[1]) = Len(MatchingFiles(src.entries))
        /\ \A i \in 1..Len(reports[1]) :
            reports[1][i].name = SuiteName(MatchingFiles(src.entries)[i].name)
    /\ (pc = "done" /\ dst = "dir" /\ src.given
            /\ (~src.exists \/ src.entries = <<>>)) =>
        /\ raised = "no"
        /\ reports = << <<>> >>

\* a report of two suites is written, the second for a file whose lines
\* gave no case
C7_Witness ==
    /\ pc = "done"
    /\ raised = "no"
    /\ Len(reports) = 1
    /\ Len(reports[1]) = 2
    /\ read # <<>>
    /\ reports[1][2].test_cases = <<>>

\* the exported entries of the lines, in line order
RECURSIVE ExportedEntries(_)
ExportedEntries(lines) ==
    IF lines = <<>> THEN <<>>
    ELSE (IF IsExported(Head(lines)) THEN <<ReMatch(Head(lines))>> ELSE <<>>)
            \o ExportedEntries(Tail(lines))

Pair(e) == <<e.func, Message(e)>>

\* entry i is the first of its func, of its (func, message) pair
FirstOfFunc(E, i) == \A j \in 1..(i - 1) : E[j].func # E[i].func
FirstOfPair(E, i) == \A j \in 1..(i - 1) : Pair(E[j]) # Pair(E[i])

\* the cases an entry stands for
EntryCases(e, suite) ==
    <<[name |-> e.func, classname |-> suite, category |-> suite,
       timestamp |-> Str(e.time),
       failures |-> <<[message |-> Message(e), output |-> Message(e),
                       type |-> e.level]>>]>>
    \o (IF e.level = <<"error">>
        THEN <<[name |-> e.func, classname |-> suite, category |-> suite,
                timestamp |-> None, failures |-> <<>>]>>
        ELSE <<>>)

\* the cases of func f: those of the first entries of its pairs, from
\* entry i on, in line order
RECURSIVE FuncCases(_, _, _, _)
FuncCases(E, f, suite, i) ==
    IF i > Len(E) THEN <<>>
    ELSE (IF E[i].func = f /\ FirstOfPair(E, i) THEN EntryCases(E[i], suite) ELSE <<>>)
            \o FuncCases(E, f, suite, i + 1)

\* the case lists of the funcs, in the order of the first entry of each
RECURSIVE GroupedCases(_, _, _)
GroupedCases(E, suite, i) ==
    IF i > Len(E) THEN <<>>
    ELSE (IF FirstOfFunc(E, i) THEN FuncCases(E, E[i].func, suite, 1) ELSE <<>>)
            \o GroupedCases(E, suite, i + 1)

\* the suite of the file whose lines are read: the last one appended
SuiteBuilt == pc # "lines" /\ suites # <<>>
LastSuite == suites[Len(suites)]

\* C8: the cases of a suite are the case lists of the funcs, in the order
\* of the first exported line of each func and in line order within a func;
\* the timestamp of the suite is none exactly when there is no case, and
\* otherwise the time of the first exported line, the first case being a
\* failing one.
C8_SuiteOrderAndTimestamp ==
    SuiteBuilt =>
        LET E == ExportedEntries(read)
            S == LastSuite.test_cases
        IN  /\ S = GroupedCases(E, LastSuite.name, 1)
            /\ LastSuite.timestamp = None <=> S = <<>>
            /\ S # <<>> =>
                /\ Failing(S[1])
                /\ LastSuite.timestamp = Str(E[1].time)

\* three exported lines were read, of func A, func B and func A again with
\* another message: the suite holds the cases of A before those of B
C8_Witness ==
    /\ SuiteBuilt
    /\ Len(read) = 3
    /\ \A i \in 1..3 : IsExported(read[i])
    /\ ReMatch(read[1]).func # ReMatch(read[2]).func
    /\ ReMatch(read[1]).func = ReMatch(read[3]).func
    /\ Message(ReMatch(read[1])) # Message(ReMatch(read[3]))
    /\ LastSuite.timestamp = Str(ReMatch(read[1]).time)
    /\ LastSuite.test_cases[Len(LastSuite.test_cases)].name = ReMatch(read[2]).func

\* C9: the failing cases of a suite correspond one to one to the (func,
\* message) pairs of the exported entries of its file: no two failing cases
\* share func and message, every entry has the failing case of its pair,
\* and each failing case has the level and the time of the first entry of
\* its pair; entries of other files do not count.
C9_OneFailingCasePerPair ==
    SuiteBuilt =>
        LET E == ExportedEntries(read)
            S == LastSuite.test_cases
            F == {i \in 1..Len(S) : Failing(S[i])}
        IN  /\ \A i, j \in F :
                (S[i].name = S[j].name
                    /\ S[i].failures[1].message = S[j].failures[1].message)
                    => i = j
            /\ \A k \in 1..Len(E) :
                \E i \in F : <<S[i].name, S[i].failures[1].message>> = Pair(E[k])
            /\ \A i \in F :
                \E k \in 1..Len(E) :
                    /\ FirstOfPair(E, k)
                    /\ <<S[i].name, S[i].failures[1].message>> = Pair(E[k])
                    /\ S[i].failures[1].type = E[k].level
                    /\ S[i].timestamp = Str(E[k].time)

\* two suites are built; the file of the second has an error entry and
\* then a fatal entry of the same func and message, reported once as error,
\* and the first suite has a failing case of that func and message too
C9_Witness ==
    /\ SuiteBuilt
    /\ Len(suites) = 2
    /\ Len(read) >= 2
    /\ IsExported(read[1]) /\ ReMatch(read[1]).level = <<"error">>
    /\ IsExported(read[2]) /\ ReMatch(read[2]).level = <<"fatal">>
    /\ Pair(ReMatch(read[1])) = Pair(ReMatch(read[2]))
    /\ \E c \in {suites[1].test_cases[i] : i \in 1..Len(suites[1].test_cases)} :
        /\ Failing(c)
        /\ <<c.name, c.failures[1].message>> = Pair(ReMatch(read[1]))
    /\ \E c \in {suites[2].test_cases[i] : i \in 1..Len(suites[2].test_cases)} :
        /\ Failing(c)
        /\ <<c.name, c.failures[1].message>> = Pair(ReMatch(read[1]))

\* C10: in the case list of every suite a case has at most one failure; a
\* case without failure comes right after a failing case of the same name
\* and suite whose type is not fatal; a failing case of type error is
\* followed by such a case and a failing case of type fatal is not; so the
\* cases without failure are as many as the failing cases of type error.
C10_FlakySiblings ==
    \A n \in 1..Len(suites) :
        LET S == suites[n].test_cases
            Sibling(i) ==
                /\ i <= Len(S)
                /\ ~Failing(S[i])
                /\ S[i].name = S[i - 1].name
                /\ S[i].classname = S[i - 1].classname
        IN  /\ \A i \in 1..Len(S) : Len(S[i].failures) <= 1
            /\ \A i \in 1..Len(S) :
                ~Failing(S[i]) =>
                    /\ i > 1
                    /\ Failing(S[i - 1])
                    /\ Sibling(i)
                    /\ S[i - 1].failures[1].type # <<"fatal">>
            /\ \A i \in 1..Len(S) :
                Failing(S[i]) =>
                    /\ S[i].failures[1].type = <<"error">> => Sibling(i + 1)
                    /\ S[i].failures[1].type = <<"fatal">> => ~Sibling(i + 1)
            /\ Cardinality({i \in 1..Len(S) : ~Failing(S[i])})
                 = Cardinality({i \in 1..Len(S) :
                        Failing(S[i]) /\ S[i].failures[1].type = <<"error">>})

\* a suite holds an error case with its sibling and then a fatal case of
\* the same func
C10_Witness ==
    /\ suites # <<>>
    /\ LET S == LastSuite.test_cases
       IN  /\ Len(S) = 3
           /\ Failing(S[1]) /\ S[1].failures[1].type = <<"error">>
           /\ ~Failing(S[2])
           /\ Failing(S[3]) /\ S[3].failures[1].type = <<"fatal">>
           /\ S[3].name = S[1].name

====
